---- MODULE Spec2Model ----
(***************************************************************************)
(* Model of ocrmypdf_paddlepaddle: the content stream builder, the page    *)
(* assembler (generate_text_content_stream, paddleocr_to_pdf) and the      *)
(* engine entry point that calls it.                                       *)
(*                                                                         *)
(* Numbers: Python floats are modelled as exact rationals [n, d] in lowest *)
(* terms (d > 0).  Rounding of binary64 is not modelled, except that the   *)
(* residue of sin(pi) is kept as a nonzero value.                          *)
(* Text: a Python str is the sequence of its code points.                  *)
(***************************************************************************)
EXTENDS Integers, Sequences, FiniteSets, TLC

\* ------------------------------------------------------------------ bounds
\* Most layout blocks of one page.
MaxBlocks == 2
\* Most word records of one page (over all its blocks).
MaxWords == 2
\* Most calls made on a free-standing builder.
MaxCalls == 2
\* Most pages submitted to the workers, and most worker processes.
MaxJobs == 2
MaxWorkers == 2

\* ------------------------------------------------------- program constants
CHAR_ASPECT == 2
TEXT_RENDER_MODE_INVISIBLE == 3
PDF_POINTS_PER_INCH == 72
HORIZONTAL_SCALE_FACTOR == 100

\* ---------------------------------------------------------------- numbers
RECURSIVE GCD(_, _)
GCD(a, b) == IF b = 0 THEN a ELSE GCD(b, a % b)

Abs(x) == IF x < 0 THEN -x ELSE x

\* The rational n/d in lowest terms with a positive denominator (d # 0).
Rat(n, d) ==
    LET g == GCD(Abs(n), Abs(d))
        sg == IF d < 0 THEN -1 ELSE 1
    IN  [n |-> sg * (n \div g), d |-> sg * (d \div g)]

RInt(i) == [n |-> i, d |-> 1]
RMul(x, y) == Rat(x.n * y.n, x.d * y.d)
RSub(x, y) == Rat(x.n * y.d - y.n * x.d, x.d * y.d)
RNeg(x) == [n |-> -x.n, d |-> x.d]
RAbs(x) == [n |-> Abs(x.n), d |-> x.d]
\* x / y for y # 0
RDiv(x, y) == Rat(x.n * y.d, x.d * y.n)
RLess(x, y) == x.n * y.d < y.n * x.d
RLeq(x, y) == x.n * y.d <= y.n * x.d
RZero == RInt(0)
ROne == RInt(1)

\* 0.01 rad
ANGLE_THRESHOLD_RAD == Rat(1, 100)

\* pi and pi/2 as the angles atan2 returns on the axes.
Pi == Rat(355, 113)
HalfPi == Rat(355, 226)
\* |sin(pi)| and |cos(pi/2)| in binary64 are about 1e-16, not 0: a nonzero residue.
Residue == Rat(1, 1000000000)

\* Largest i with i * i <= k.
RECURSIVE ISqrtFrom(_, _)
ISqrtFrom(k, i) == IF (i + 1) * (i + 1) > k THEN i ELSE ISqrtFrom(k, i + 1)

\* math.hypot: exact when one argument is 0 (the only case an axis-aligned
\* quad gives); otherwise the square root is rounded down to a rational with
\* the arguments' common denominator.
hypot(x, y) ==
    IF x.n = 0 THEN RAbs(y)
    ELSE IF y.n = 0 THEN RAbs(x)
    ELSE Rat(ISqrtFrom((x.n * y.d) * (x.n * y.d) + (y.n * x.d) * (y.n * x.d), 0),
             x.d * y.d)

\* math.atan2(y, x) on the axes; off the axes the quadrant's diagonal stands
\* for the angle (an axis-aligned bbox never gets there).
atan2(y, x) ==
    IF y.n = 0 THEN (IF x.n >= 0 THEN RZero ELSE Pi)
    ELSE IF x.n = 0 THEN (IF y.n > 0 THEN HalfPi ELSE RNeg(HalfPi))
    ELSE LET q1 == Rat(355, 452)
             q2 == Rat(3 * 355, 452)
         IN  IF y.n > 0 THEN (IF x.n > 0 THEN q1 ELSE q2)
             ELSE (IF x.n > 0 THEN RNeg(q1) ELSE RNeg(q2))

\* math.cos / math.sin of the angles above.
cos(a) ==
    IF a = RZero THEN ROne
    ELSE IF RAbs(a) = Pi THEN RInt(-1)
    ELSE IF RAbs(a) = HalfPi THEN Residue
    ELSE IF RLess(RAbs(a), HalfPi) THEN Rat(7071, 10000) ELSE Rat(-7071, 10000)

sin(a) ==
    IF a = RZero THEN RZero
    ELSE IF a = Pi THEN Residue
    ELSE IF a = RNeg(Pi) THEN RNeg(Residue)
    ELSE IF a = HalfPi THEN ROne
    ELSE IF a = RNeg(HalfPi) THEN RInt(-1)
    ELSE IF a.n > 0 THEN Rat(7071, 10000) ELSE Rat(-7071, 10000)

\* ------------------------------------------------------------------- text
IsSurrogate(c) == c >= 55296 /\ c <= 57343

\* str.encode("utf-16be") succeeds: no lone surrogate code point.
CanEncode(cp) == \A i \in 1..Len(cp) : ~IsSurrogate(cp[i])

\* The UTF-16BE bytes of one code point.
EncodeUnit(u) == <<u \div 256, u % 256>>
EncodeChar(c) ==
    IF c < 65536 THEN EncodeUnit(c)
    ELSE EncodeUnit(55296 + ((c - 65536) \div 1024))
         \o EncodeUnit(56320 + ((c - 65536) % 1024))

RECURSIVE Utf16be(_)
Utf16be(cp) == IF cp = <<>> THEN <<>> ELSE EncodeChar(Head(cp)) \o Utf16be(Tail(cp))

\* bytes.decode("utf-16be") of well-formed input.
RECURSIVE Utf16beDecode(_)
Utf16beDecode(b) ==
    IF Len(b) < 2 THEN <<>>
    ELSE LET u == b[1] * 256 + b[2]
         IN  IF u >= 55296 /\ u <= 56319 /\ Len(b) >= 4
             THEN LET lo == b[3] * 256 + b[4]
                  IN  <<65536 + (u - 55296) * 1024 + (lo - 56320)>>
                      \o Utf16beDecode(SubSeq(b, 5, Len(b)))
             ELSE <<u>> \o Utf16beDecode(SubSeq(b, 3, Len(b)))

\* --------------------------------------------------- ContentStreamBuilder
\* One ContentStreamInstruction: the operator and its operands.  name holds the
\* Name operand (BDC's tag, Tf's font), nums the numeric operands in order
\* (BDC's MCID included), bytes the string operand of TJ.
Instr(op, name, nums, bytes) == [op |-> op, name |-> name, nums |-> nums, bytes |-> bytes]

\* Each operation is the list after the call; the call returns self.
q(ins) == Append(ins, Instr("q", "", <<>>, <<>>))
\* Q that saves instead of restoring.
Q_Saves(ins) == Append(ins, Instr("q", "", <<>>, <<>>))
Q(ins) == Append(ins, Instr("Q", "", <<>>, <<>>))
cm(ins, a, b, c, d, e, f) == Append(ins, Instr("cm", "", <<a, b, c, d, e, f>>, <<>>))
BT(ins) == Append(ins, Instr("BT", "", <<>>, <<>>))
ET(ins) == Append(ins, Instr("ET", "", <<>>, <<>>))
BDC(ins, mctype, mcid) == Append(ins, Instr("BDC", mctype, <<RInt(mcid)>>, <<>>))
\* EMC that inserts at the front.
EMC_AtFront(ins) == <<Instr("EMC", "", <<>>, <<>>)>> \o ins
EMC(ins) == Append(ins, Instr("EMC", "", <<>>, <<>>))
Tf(ins, font, size) == Append(ins, Instr("Tf", font, <<size>>, <<>>))
Tm(ins, a, b, c, d, e, f) == Append(ins, Instr("Tm", "", <<a, b, c, d, e, f>>, <<>>))
Tr(ins, mode) == Append(ins, Instr("Tr", "", <<RInt(mode)>>, <<>>))
Tz(ins, scale) == Append(ins, Instr("Tz", "", <<scale>>, <<>>))
\* text.encode raises on a lone surrogate: callers test CanEncode first.
TJ(ins, text) == Append(ins, Instr("TJ", "", <<>>, Utf16be(text)))
s(ins) == Append(ins, Instr("s", "", <<>>, <<>>))
re(ins, x, y, w, h) == Append(ins, Instr("re", "", <<x, y, w, h>>, <<>>))
RG(ins, r, g, b) == Append(ins, Instr("RG", "", <<r, g, b>>, <<>>))

\* ------------------------------------------------------------ geometry
\* pt_from_pixel on a flat list of 2k numbers: (x * sx, (height - y) * sy).
RECURSIVE pt_from_pixel(_, _, _)
pt_from_pixel(bbox, scale, height) ==
    IF Len(bbox) < 2 THEN <<>>
    ELSE <<RMul(RInt(bbox[1]), scale[1]), RMul(RInt(height - bbox[2]), scale[2])>>
         \o pt_from_pixel(SubSeq(bbox, 3, Len(bbox)), scale, height)

\* [x1, y1, x2, y2] -> top-left, top-right, bottom-right, bottom-left.
bbox_to_poly(bbox) ==
    << <<bbox[1], bbox[2]>>, <<bbox[3], bbox[2]>>, <<bbox[3], bbox[4]>>, <<bbox[1], bbox[4]>> >>

RECURSIVE poly_to_quad(_)
poly_to_quad(poly) == IF poly = <<>> THEN <<>> ELSE Head(poly) \o poly_to_quad(Tail(poly))

\* ---------------------------------------------------------- word records
\* A Python value in the "text" slot: a str (its code points), an int, None,
\* or (for the local variable before its first assignment) unbound.
Str(cp) == [t |-> "str", cp |-> cp, i |-> 0]
PyInt(i) == [t |-> "int", cp |-> <<>>, i |-> i]
PyNone == [t |-> "none", cp |-> <<>>, i |-> 0]
Unbound == [t |-> "unbound", cp |-> <<>>, i |-> 0]

\* A Python value in the "bbox" slot: a list of numbers, a list of strings
\* (strs, the entries are then placeholders), or None.
NumList(e) == [t |-> "list", e |-> e, strs |-> FALSE]
StrList(e) == [t |-> "list", e |-> e, strs |-> TRUE]
NoList == [t |-> "none", e |-> <<>>, strs |-> FALSE]

\* A word record: a mapping with some of the keys, or something that is no
\* mapping at all (mapping = FALSE: it has no .get).
Word(text, bbox) == [mapping |-> TRUE, keys |-> {"text", "bbox"}, text |-> text, bbox |-> bbox]
WordNoKeys == [mapping |-> TRUE, keys |-> {}, text |-> PyNone, bbox |-> NoList]
NotAMapping == [mapping |-> FALSE, keys |-> {}, text |-> PyNone, bbox |-> NoList]

\* word_data.get(key, default)
DictGet(w, key, default) == IF key \in w.keys THEN w[key] ELSE default

\* Python truth value of a text-slot value.
Truthy(v) ==
    \/ v.t = "str" /\ v.cp # <<>>
    \/ v.t = "int" /\ v.i # 0

\* ------------------------------------- generate_text_content_stream: a word
\* The test of line 272 once len(word_bbox) can be taken.
SkipEarly(text, word_bbox) == ~Truthy(text) \/ Len(word_bbox.e) # 4

\* Lines 276-293 with the arguments of atan2 (line 284) exchanged.
Geometry_Atan2Exchanged(word_bbox, scale, height) ==
    LET poly == bbox_to_poly(word_bbox)
        quad == poly_to_quad(poly)
        bbox == pt_from_pixel(quad, scale, height)
        raw == RNeg(atan2(RSub(bbox[5], bbox[7]), RSub(bbox[6], bbox[8])))
        angle == IF RLess(RAbs(raw), ANGLE_THRESHOLD_RAD) THEN RZero ELSE raw
    IN  [quadlen |-> Len(quad),
         bbox |-> bbox,
         raw |-> raw,
         angle |-> angle,
         cos_a |-> cos(angle),
         sin_a |-> sin(angle),
         font_size |-> hypot(RSub(bbox[1], bbox[7]), RSub(bbox[2], bbox[8])),
         box_width |-> hypot(RSub(bbox[5], bbox[7]), RSub(bbox[6], bbox[8]))]

\* Lines 276-293: the word's quad in points, its angle, font size and width.
Geometry(word_bbox, scale, height) ==
    LET poly == bbox_to_poly(word_bbox)
        quad == poly_to_quad(poly)
        bbox == pt_from_pixel(quad, scale, height)
        raw == RNeg(atan2(RSub(bbox[6], bbox[8]), RSub(bbox[5], bbox[7])))
        angle == IF RLess(RAbs(raw), ANGLE_THRESHOLD_RAD) THEN RZero ELSE raw
    IN  [quadlen |-> Len(quad),
         bbox |-> bbox,
         raw |-> raw,
         angle |-> angle,
         cos_a |-> cos(angle),
         sin_a |-> sin(angle),
         font_size |-> hypot(RSub(bbox[1], bbox[7]), RSub(bbox[2], bbox[8])),
         box_width |-> hypot(RSub(bbox[5], bbox[7]), RSub(bbox[6], bbox[8]))]

\* Line 296 without its test of box_width.
InvalidRun_NoWidthTest(textlen, box_width, font_size) ==
    textlen = 0 \/ RLeq(font_size, RZero)

\* The test of line 296.
InvalidRun(textlen, box_width, font_size) ==
    textlen = 0 \/ RLeq(box_width, RZero) \/ RLeq(font_size, RZero)

\* Lines 299-305.
h_stretch(box_width, textlen, font_size) ==
    RMul(RDiv(RDiv(RMul(RInt(HORIZONTAL_SCALE_FACTOR), box_width), RInt(textlen)), font_size),
         RInt(CHAR_ASPECT))

\* Lines 308-313 without the call of Tr.
RunHead_NoTr(cs, mcid, g, stretch) ==
    Tz(Tf(Tm(BDC(BT(cs), "/Span", mcid),
             g.cos_a, RNeg(g.sin_a), g.sin_a, g.cos_a, g.bbox[7], g.bbox[8]),
          "/f-0-0", g.font_size),
       stretch)

\* Lines 308-313: the run up to the call of TJ.
RunHead(cs, mcid, g, stretch) ==
    Tz(Tf(Tm(Tr(BDC(BT(cs), "/Span", mcid), TEXT_RENDER_MODE_INVISIBLE),
             g.cos_a, RNeg(g.sin_a), g.sin_a, g.cos_a, g.bbox[7], g.bbox[8]),
          "/f-0-0", g.font_size),
       stretch)

\* Lines 314-316 with the text shown twice.
RunTail_ShownTwice(cs, text) == ET(EMC(TJ(TJ(cs, text), text)))

\* Lines 314-316 when TJ does not raise.
RunTail(cs, text) == ET(EMC(TJ(cs, text)))

\* Lines 320-325 with the rectangle's sides exchanged.
DebugBox_SidesExchanged(cs, g) ==
    Q(s(RG(re(cm(q(cs), g.cos_a, RNeg(g.sin_a), g.sin_a, g.cos_a, g.bbox[7], g.bbox[8]),
              RZero, RZero, g.font_size, g.box_width),
           RInt(100), RInt(100), RInt(100))))

\* Lines 320-325.
DebugBox(cs, g) ==
    Q(s(RG(re(cm(q(cs), g.cos_a, RNeg(g.sin_a), g.sin_a, g.cos_a, g.bbox[7], g.bbox[8]),
              RZero, RZero, g.box_width, g.font_size),
           RInt(100), RInt(100), RInt(100))))

\* What one iteration of the word loop leaves: the instruction list, the
\* counter, the local variable text, and how the iteration ended:
\*   skip (a continue of line 273, 281 or 297), emit, absorbed (the handler of
\*   lines 328-330 logged and continued), raised (the handler itself raised).
Outcome(kind, cs, mcid, text, exc, warned) ==
    [outcome |-> kind, cs |-> cs, mcid |-> mcid, text |-> text, exc |-> exc, warned |-> warned]

\* Lines 328-330: the handler formats text[:50], which needs text to be bound
\* and sliceable; otherwise the handler raises and nothing catches it.
Handler(cs, mcid, text, exc) ==
    IF text.t = "str" THEN Outcome("absorbed", cs, mcid, text, exc, 1)
    ELSE IF text.t = "unbound" THEN Outcome("raised", cs, mcid, text, "UnboundLocalError", 0)
    ELSE Outcome("raised", cs, mcid, text, "TypeError", 0)

\* Lines 307-327 for a word that passed both tests.
EmitWord(cs, mcid, text, g, boxes) ==
    LET head == RunHead(cs, mcid, g, h_stretch(g.box_width, Len(text.cp), g.font_size))
    IN  IF ~CanEncode(text.cp) THEN Handler(head, mcid, text, "UnicodeEncodeError")
        ELSE LET run == RunTail(head, text.cp)
             IN  Outcome("emit", IF boxes THEN DebugBox(run, g) ELSE run, mcid + 1, text, "", 0)

\* Lines 266-330: the body of the word loop.  old is text as the previous
\* iterations left it.
ProcessWordData(word_data, cs, mcid, old, scale, height, boxes) ==
    IF ~word_data.mapping THEN Handler(cs, mcid, old, "AttributeError")
    ELSE
    LET text == DictGet(word_data, "text", Str(<<>>))
        word_bbox == DictGet(word_data, "bbox", NumList(<<>>))
    IN  IF Truthy(text) /\ word_bbox.t # "list" THEN Handler(cs, mcid, text, "TypeError")
        ELSE IF SkipEarly(text, word_bbox) THEN Outcome("skip", cs, mcid, text, "", 0)
        ELSE IF word_bbox.strs THEN Handler(cs, mcid, text, "TypeError")
        ELSE
        LET g == Geometry(word_bbox.e, scale, height)
        IN  IF g.quadlen # 8 THEN Outcome("skip", cs, mcid, text, "", 1)
            ELSE IF text.t # "str" THEN Handler(cs, mcid, text, "TypeError")
            ELSE IF InvalidRun(Len(text.cp), g.box_width, g.font_size)
                 THEN Outcome("skip", cs, mcid, text, "", 0)
            ELSE EmitWord(cs, mcid, text, g, boxes)

\* ------------------------------------------------------------ the inputs
WHi == Word(Str(<<72, 105>>), NumList(<<10, 10, 90, 30>>))
\* one character outside the BMP (U+1F600): len(text) = 1, four bytes
WAstral == Word(Str(<<128512>>), NumList(<<20, 40, 60, 50>>))
WEmpty == Word(Str(<<>>), NumList(<<10, 10, 90, 30>>))
WBbox3 == Word(Str(<<72, 105>>), NumList(<<10, 10, 90>>))
\* y1 = y2: font_size 0
WFlat == Word(Str(<<72, 105>>), NumList(<<10, 30, 90, 30>>))
\* x1 = x2: run width 0
WThin == Word(Str(<<72, 105>>), NumList(<<10, 10, 10, 30>>))
\* x2 < x1
WReversed == Word(Str(<<72, 105>>), NumList(<<90, 10, 10, 30>>))
WIntText == Word(PyInt(7), NumList(<<10, 10, 90, 30>>))
WStrBbox == Word(Str(<<72, 105>>), StrList(<<0, 0, 0, 0>>))
\* a lone surrogate (U+D800): str.encode("utf-16be") raises
WSurrogate == Word(Str(<<55296>>), NumList(<<10, 10, 90, 30>>))

Words ==
    {WHi, WAstral, WEmpty, WBbox3, WFlat, WThin, WReversed, WIntText, WStrBbox,
     WSurrogate, WordNoKeys, NotAMapping}

WordSeqs == UNION {[1..n -> Words] : n \in 0..MaxWords}

RECURSIVE SumSeq(_)
SumSeq(xs) == IF xs = <<>> THEN 0 ELSE Head(xs) + SumSeq(Tail(xs))

\* The ways to cut n words into at most MaxBlocks blocks (a block may be empty).
Splits(n) == {lens \in UNION {[1..k -> 0..n] : k \in 0..MaxBlocks} : SumSeq(lens) = n}

PaddleBlock(label, ocr_words) == [label |-> label, ocr_words |-> ocr_words]

BlocksOf(ws, lens) ==
    [b \in 1..Len(lens) |->
        PaddleBlock("text", SubSeq(ws, SumSeq(SubSeq(lens, 1, b - 1)) + 1,
                                       SumSeq(SubSeq(lens, 1, b))))]

\* ocr_result: None, or a PaddleResult (always truthy) with its blocks.
NoResult == [none |-> TRUE, blocks |-> <<>>]
PaddleResult(blocks) == [none |-> FALSE, blocks |-> blocks]

Results ==
    {NoResult} \cup
    UNION {{PaddleResult(BlocksOf(ws, lens)) : lens \in Splits(Len(ws))} : ws \in WordSeqs}

\* (scale_x, scale_y) in points per pixel, and the page height in pixels.
Scales == {<<Rat(3, 4), Rat(1, 2)>>}
Heights == {100}

\* ------------------------------------------------------------------ state
VARIABLES
    pc,            \* where the call is
    entry,         \* the function that was called
    ocr_result, scale, height, boxes,   \* generate_text_content_stream's arguments
    cs,            \* cs._instructions
    mcid_counter,
    bi, wi,        \* the block and the word the loops are at (1-based)
    text,          \* the local variable text
    log,           \* the diagnostics logged, in order
    last,          \* the last word iteration: its word, how it ended, and the
                   \* list and counter before and after it
    ret,           \* the value returned
    exc,           \* the exception that left the call ("" if none)
    \* paddleocr_to_pdf and PaddlePaddleEngine.generate_pdf
    image,         \* the image file: exists, can be opened, its size and dpi
    image_scale,
    writable,      \* whether output_pdf can be written
    output,        \* output_dict["output"] as the worker left it
    pdf,           \* the Pdf object
    \* a free-standing ContentStreamBuilder
    lists,         \* the list objects of the heap: id -> contents
    calls,         \* the calls made on the builder, in order
    returned,      \* what the last call returned
    result,        \* build()'s return value: the list's id, and its contents then
    \* a second call of generate_text_content_stream in the same process
    first,         \* what the call before this one was given and returned
    \* PaddleResult.__init__
    raw,           \* the raw layout result handed to from_layout_result
    trace,         \* per block built: what the two library calls were given and gave
    \* ocr_process and the callers of generate_pdf
    queue,         \* the shared multiprocessing.Queue, oldest message first
    slot,          \* each job's output_dict
    event,         \* each job's Event
    caller,        \* each page's call of generate_pdf
    worker,        \* each worker process: where it is and the message it holds
    taken,         \* the messages taken off the queue so far, and by whom
    stops          \* optimize_pdf: the stop messages put, and whether the
                   \* joins are done

genVars == <<pc, entry, ocr_result, scale, height, boxes, cs, mcid_counter, bi, wi,
             text, log, last, ret, exc>>

pageVars == <<image, image_scale, writable, output, pdf>>

builderVars == <<lists, calls, returned, result>>

callVars == <<first>>

normVars == <<raw, trace>>

engineVars == <<queue, slot, event, caller, worker, taken, stops>>

otherVars == <<callVars, normVars, engineVars>>

NoLast == [outcome |-> "none", word |-> NotAMapping, bi |-> 0, wi |-> 0,
           cs |-> <<>>, mcid |-> 0, cs_after |-> <<>>, mcid_after |-> 0, warned |-> 0]

\* The locals of generate_text_content_stream before its first statement.
GenLocals ==
    /\ cs = <<>>
    /\ mcid_counter = 0
    /\ bi = 0
    /\ wi = 0
    /\ text = Unbound
    /\ log = <<>>
    /\ last = NoLast
    /\ ret = <<>>
    /\ exc = ""

NoImage == [exists |-> FALSE, openable |-> FALSE, width |-> 0, height |-> 0,
            has_dpi |-> FALSE, dpi |-> <<0, 0>>]

NoPdf == [open |-> FALSE, npages |-> 0, page_size |-> <<RZero, RZero>>, font |-> FALSE,
          contents |-> <<>>, saved |-> FALSE]

NoOutput == [failed |-> FALSE, results |-> <<>>]

\* paddleocr_to_pdf not in use.
PageIdle ==
    /\ image = NoImage
    /\ image_scale = RZero
    /\ writable = FALSE
    /\ output = NoOutput
    /\ pdf = NoPdf

\* No builder apart from the one generate_text_content_stream makes.
BuilderIdle ==
    /\ lists = <<>>
    /\ calls = <<>>
    /\ returned = "none"
    /\ result = [ref |-> 0, at_build |-> <<>>]

\* No earlier call in this process.
NoFirst == [made |-> FALSE, boxes |-> FALSE, ret |-> <<>>]

\* No raw result under normalisation.
NoRaw == [ocr |-> "missing", words |-> <<>>, has_list |-> FALSE, layout |-> <<>>]

\* optimize_pdf has not been called.
NoStops == [put |-> 0, joined |-> FALSE]

\* No second call, no normalisation, no worker and no job.
OthersIdle ==
    /\ first = NoFirst
    /\ raw = NoRaw
    /\ trace = <<>>
    /\ queue = <<>>
    /\ slot = <<>>
    /\ event = <<>>
    /\ caller = <<>>
    /\ worker = <<>>
    /\ taken = <<>>
    /\ stops = NoStops

\* A direct call of generate_text_content_stream.
Init ==
    /\ PageIdle
    /\ BuilderIdle
    /\ OthersIdle
    /\ pc = "begin"
    /\ entry = "generate_text_content_stream"
    /\ ocr_result \in Results
    /\ scale \in Scales
    /\ height \in Heights
    /\ boxes \in BOOLEAN
    /\ GenLocals

\* ContentStreamBuilder.build: the list itself.
build(ins) == ins

\* Lines 243-254 without the assignment of line 254.
Begin_KeepsCounter ==
    /\ pc = "begin"
    /\ IF ocr_result.none \/ ocr_result.blocks = <<>>
       THEN /\ cs' = Q(q(<<>>))
            /\ ret' = build(cs')
            /\ pc' = "returned"
            /\ UNCHANGED <<mcid_counter, bi>>
       ELSE /\ cs' = q(<<>>)
            /\ bi' = 1
            /\ pc' = "block"
            /\ UNCHANGED <<mcid_counter, ret>>
    /\ UNCHANGED <<entry, ocr_result, scale, height, boxes, wi, text, log, last, exc>>
    /\ UNCHANGED <<pageVars, builderVars, otherVars>>

\* Lines 243-254.
Begin ==
    /\ pc = "begin"
    /\ IF ocr_result.none \/ ocr_result.blocks = <<>>
       THEN /\ cs' = Q(q(<<>>))
            /\ ret' = build(cs')
            /\ pc' = "returned"
            /\ UNCHANGED <<mcid_counter, bi>>
       ELSE /\ cs' = q(<<>>)
            /\ mcid_counter' = 0
            /\ bi' = 1
            /\ pc' = "block"
            /\ UNCHANGED ret
    /\ UNCHANGED <<entry, ocr_result, scale, height, boxes, wi, text, log, last, exc>>
    /\ UNCHANGED <<pageVars, builderVars, otherVars>>

\* Lines 256-262: the next block; one without words is logged and skipped.
NextBlock ==
    /\ pc = "block"
    /\ bi <= Len(ocr_result.blocks)
    /\ IF ocr_result.blocks[bi].ocr_words = <<>>
       THEN /\ log' = Append(log, [level |-> "debug", bi |-> bi, wi |-> 0])
            /\ bi' = bi + 1
            /\ UNCHANGED <<pc, wi>>
       ELSE /\ wi' = 1
            /\ pc' = "word"
            /\ UNCHANGED <<log, bi>>
    /\ UNCHANGED <<entry, ocr_result, scale, height, boxes, cs, mcid_counter, text, last, ret, exc>>
    /\ UNCHANGED <<pageVars, builderVars, otherVars>>

\* Lines 265-330: one iteration of the word loop.
ProcessWord ==
    /\ pc = "word"
    /\ LET words == ocr_result.blocks[bi].ocr_words
           r == ProcessWordData(words[wi], cs, mcid_counter, text, scale, height, boxes)
       IN  /\ cs' = r.cs
           /\ mcid_counter' = r.mcid
           /\ text' = r.text
           /\ log' = IF r.warned = 1
                     THEN Append(log, [level |-> "warning", bi |-> bi, wi |-> wi])
                     ELSE log
           /\ last' = [outcome |-> r.outcome, word |-> words[wi], bi |-> bi, wi |-> wi,
                       cs |-> cs, mcid |-> mcid_counter,
                       cs_after |-> cs', mcid_after |-> mcid_counter',
                       warned |-> r.warned]
           /\ IF r.outcome = "raised"
              THEN /\ pc' = "raised"
                   /\ exc' = r.exc
                   /\ UNCHANGED <<bi, wi>>
              ELSE /\ exc' = exc
                   /\ IF wi = Len(words)
                      THEN /\ bi' = bi + 1
                           /\ wi' = 0
                           /\ pc' = "block"
                      ELSE /\ wi' = wi + 1
                           /\ UNCHANGED <<pc, bi>>
    /\ UNCHANGED <<entry, ocr_result, scale, height, boxes, ret>>
    /\ UNCHANGED <<pageVars, builderVars, otherVars>>

\* Lines 332-333.
Finish ==
    /\ pc = "block"
    /\ bi > Len(ocr_result.blocks)
    /\ cs' = Q(cs)
    /\ ret' = build(cs')
    /\ pc' = "returned"
    /\ UNCHANGED <<entry, ocr_result, scale, height, boxes, mcid_counter, bi, wi, text,
                   log, last, exc>>
    /\ UNCHANGED <<pageVars, builderVars, otherVars>>

vars == <<genVars, pageVars, builderVars, otherVars>>

Next == Begin \/ NextBlock \/ ProcessWord \/ Finish

Spec == Init /\ [][Next]_vars

\* ------------------------------------------------------ paddleocr_to_pdf
\* The results a page is assembled from here: absent, without blocks, a block
\* without words, and blocks with words of each kind.
PageResults ==
    {NoResult,
     PaddleResult(<<>>),
     PaddleResult(<<PaddleBlock("text", <<>>)>>),
     PaddleResult(<<PaddleBlock("text", <<WHi>>)>>),
     PaddleResult(<<PaddleBlock("table", <<WHi, WThin>>), PaddleBlock("text", <<WAstral>>)>>),
     PaddleResult(<<PaddleBlock("text", <<WSurrogate, WHi>>)>>),
     PaddleResult(<<PaddleBlock("text", <<WIntText>>)>>)}

Images ==
    [exists : BOOLEAN, openable : BOOLEAN, width : {200, 0}, height : {100},
     has_dpi : BOOLEAN, dpi : {<<96, 96>>, <<72, 144>>}]

ImageScales == {RInt(0), RInt(1), RInt(2)}

\* output_dict["output"]: "" after a failed inference, else the list of results.
EngineOutputs ==
    {[failed |-> TRUE, results |-> <<>>], [failed |-> FALSE, results |-> <<>>]}
    \cup {[failed |-> FALSE, results |-> <<r>>] : r \in PageResults \ {NoResult}}

\* A call of paddleocr_to_pdf, or of PaddlePaddleEngine.generate_pdf once the
\* worker has set the event.
InitPage ==
    /\ BuilderIdle
    /\ OthersIdle
    /\ GenLocals
    /\ scale = <<RZero, RZero>>
    /\ height = 0
    /\ image \in Images
    /\ writable \in BOOLEAN
    /\ pdf = NoPdf
    /\ \/ /\ entry = "paddleocr_to_pdf"
          /\ pc = "validate"
          /\ image_scale \in ImageScales
          /\ ocr_result \in PageResults
          /\ boxes \in BOOLEAN
          /\ output = NoOutput
       \/ /\ entry = "generate_pdf"
          /\ pc = "engine"
          /\ image_scale = RZero
          /\ ocr_result = NoResult
          /\ boxes = FALSE
          /\ output \in EngineOutputs

\* engine.py lines 118-138: the image is read, the first result is taken from
\* the slot, and paddleocr_to_pdf is called with image_scale 1.0 and boxes=True.
GeneratePdf ==
    /\ pc = "engine"
    /\ IF ~(image.exists /\ image.openable)
       THEN /\ pc' = "failed"
            /\ exc' = "RuntimeError"
            /\ UNCHANGED <<ocr_result, image_scale, boxes>>
       ELSE IF output.failed \/ output.results = <<>>
       THEN /\ pc' = "failed"
            /\ exc' = "IndexError"
            /\ UNCHANGED <<ocr_result, image_scale, boxes>>
       ELSE /\ ocr_result' = output.results[1]
            /\ image_scale' = RInt(1)
            /\ boxes' = TRUE
            /\ pc' = "validate"
            /\ UNCHANGED exc
    /\ UNCHANGED <<entry, scale, height, cs, mcid_counter, bi, wi, text, log, last, ret>>
    /\ UNCHANGED <<image, writable, output, pdf, builderVars, otherVars>>

\* Lines 353 and 360-363 with the image's dpi never read.
ScaleOf_DpiNotRead(im, iscale) ==
    <<RDiv(RDiv(RInt(PDF_POINTS_PER_INCH), RInt(PDF_POINTS_PER_INCH)), iscale),
      RDiv(RDiv(RInt(PDF_POINTS_PER_INCH), RInt(PDF_POINTS_PER_INCH)), iscale)>>

\* The (x, y) scale of lines 353 and 360-363.
ScaleOf(im, iscale) ==
    LET dpi == IF im.has_dpi THEN im.dpi ELSE <<PDF_POINTS_PER_INCH, PDF_POINTS_PER_INCH>>
    IN  <<RDiv(RDiv(RInt(PDF_POINTS_PER_INCH), RInt(dpi[1])), iscale),
          RDiv(RDiv(RInt(PDF_POINTS_PER_INCH), RInt(dpi[2])), iscale)>>

\* Lines 344-365 without the test of the image's dimensions (lines 357-358).
InputRejected_NoSizeTest(im, iscale) ==
    \/ ~im.exists
    \/ RLeq(iscale, RZero)
    \/ ~im.openable

\* The tests of lines 344-365: TRUE when one of them raises ValueError.
InputRejected(im, iscale) ==
    \/ ~im.exists
    \/ RLeq(iscale, RZero)
    \/ ~im.openable
    \/ im.width <= 0
    \/ im.height <= 0

\* Lines 343-365.
Validate ==
    /\ pc = "validate"
    /\ IF InputRejected(image, image_scale)
       THEN /\ pc' = "failed"
            /\ exc' = "ValueError"
            /\ UNCHANGED <<scale, height>>
       ELSE /\ scale' = ScaleOf(image, image_scale)
            /\ height' = image.height
            /\ pc' = "newpdf"
            /\ UNCHANGED exc
    /\ UNCHANGED <<entry, ocr_result, boxes, cs, mcid_counter, bi, wi, text, log, last, ret>>
    /\ UNCHANGED <<pageVars, builderVars, otherVars>>

\* Line 374: the page added by add_blank_page.
BlankPage(im, sc) ==
    [open |-> TRUE, npages |-> 1,
     page_size |-> <<RMul(RInt(im.width), sc[1]), RMul(RInt(im.height), sc[2])>>,
     font |-> FALSE, contents |-> <<>>, saved |-> FALSE]

\* Lines 367-377: the warning for a result without blocks, the new document,
\* its blank page and the font resource.
NewPdf ==
    /\ pc = "newpdf"
    /\ log' = IF ocr_result.none \/ ocr_result.blocks = <<>>
              THEN Append(log, [level |-> "warning", bi |-> 0, wi |-> 0])
              ELSE log
    /\ pdf' = [BlankPage(image, scale) EXCEPT !.font = TRUE]
    /\ pc' = "begin"
    /\ UNCHANGED <<entry, ocr_result, scale, height, boxes, cs, mcid_counter, bi, wi, text,
                   last, ret, exc>>
    /\ UNCHANGED <<image, image_scale, writable, output, builderVars, otherVars>>

\* Lines 380-386: the stream becomes the page's contents and the document is
\* saved; a destination that cannot be written raises RuntimeError.
Save ==
    /\ pc = "returned"
    /\ entry # "generate_text_content_stream"
    /\ IF writable
       THEN /\ pdf' = [pdf EXCEPT !.contents = ret, !.saved = TRUE, !.open = FALSE]
            /\ pc' = "saved"
            /\ UNCHANGED exc
       ELSE /\ pdf' = [pdf EXCEPT !.contents = ret, !.open = FALSE]
            /\ pc' = "failed"
            /\ exc' = "RuntimeError"
    /\ UNCHANGED <<entry, ocr_result, scale, height, boxes, cs, mcid_counter, bi, wi, text,
                   log, last, ret>>
    /\ UNCHANGED <<image, image_scale, writable, output, builderVars, otherVars>>

\* Lines 383-384: an exception out of generate_text_content_stream is wrapped.
FailPdf ==
    /\ pc = "raised"
    /\ pdf.open
    /\ pdf' = [pdf EXCEPT !.open = FALSE]
    /\ pc' = "failed"
    /\ exc' = "RuntimeError"
    /\ UNCHANGED <<entry, ocr_result, scale, height, boxes, cs, mcid_counter, bi, wi, text,
                   log, last, ret>>
    /\ UNCHANGED <<image, image_scale, writable, output, builderVars, otherVars>>

NextPage ==
    \/ GeneratePdf
    \/ Validate
    \/ NewPdf
    \/ Begin
    \/ NextBlock
    \/ ProcessWord
    \/ Finish
    \/ Save
    \/ FailPdf

SpecPage == InitPage /\ [][NextPage]_vars

\* ------------------------------------- a free-standing ContentStreamBuilder
\* The heap holds one list object, the builder's self._instructions.
SelfInstructions == 1

\* Operands the calls are made with.
Numbers == {RZero, ROne, Rat(15, 2)}
Matrices ==
    {<<ROne, RZero, RZero, ROne, Rat(15, 2), Rat(105, 2)>>,
     <<RInt(-1), Residue, RNeg(Residue), RInt(-1), RInt(60), RZero>>}
Rects == {<<RZero, RZero, RInt(60), RInt(15)>>, <<RZero, RZero, RZero, RZero>>}
Texts == {<<72, 105>>, <<128512>>, <<55296>>, <<>>}

\* One call as made: the operation, its operands, and whether it returned self
\* or raised.
Call(op, name, nums, txt, ok) ==
    [op |-> op, name |-> name, nums |-> nums, text |-> txt, ok |-> ok]

\* Lines 142-143 (__init__): an empty list.
InitBuilder ==
    /\ PageIdle
    /\ OthersIdle
    /\ GenLocals
    /\ pc = "builder"
    /\ entry = "ContentStreamBuilder"
    /\ ocr_result = NoResult
    /\ scale = <<RZero, RZero>>
    /\ height = 0
    /\ boxes = FALSE
    /\ lists = <<<<>>>>
    /\ calls = <<>>
    /\ returned = "none"
    /\ result = [ref |-> 0, at_build |-> <<>>]

\* A call that appended: the list object is changed in place, self is returned.
Appended(newlist, call) ==
    /\ lists' = [lists EXCEPT ![SelfInstructions] = newlist]
    /\ calls' = Append(calls, call)
    /\ returned' = "self"
    /\ UNCHANGED <<result, genVars, pageVars, otherVars>>

Self == lists[SelfInstructions]

Call_q ==
    /\ Len(calls) < MaxCalls
    /\ Appended(q(Self), Call("q", "", <<>>, <<>>, TRUE))
Call_Q ==
    /\ Len(calls) < MaxCalls
    /\ Appended(Q(Self), Call("Q", "", <<>>, <<>>, TRUE))
Call_cm ==
    /\ Len(calls) < MaxCalls
    /\ \E m \in Matrices :
        Appended(cm(Self, m[1], m[2], m[3], m[4], m[5], m[6]), Call("cm", "", m, <<>>, TRUE))
Call_BT ==
    /\ Len(calls) < MaxCalls
    /\ Appended(BT(Self), Call("BT", "", <<>>, <<>>, TRUE))
Call_ET ==
    /\ Len(calls) < MaxCalls
    /\ Appended(ET(Self), Call("ET", "", <<>>, <<>>, TRUE))
Call_BDC ==
    /\ Len(calls) < MaxCalls
    /\ \E mcid \in 0..1 :
        Appended(BDC(Self, "/Span", mcid), Call("BDC", "/Span", <<RInt(mcid)>>, <<>>, TRUE))
Call_EMC ==
    /\ Len(calls) < MaxCalls
    /\ Appended(EMC(Self), Call("EMC", "", <<>>, <<>>, TRUE))
Call_Tf ==
    /\ Len(calls) < MaxCalls
    /\ \E size \in Numbers :
        Appended(Tf(Self, "/f-0-0", size), Call("Tf", "/f-0-0", <<size>>, <<>>, TRUE))
Call_Tm ==
    /\ Len(calls) < MaxCalls
    /\ \E m \in Matrices :
        Appended(Tm(Self, m[1], m[2], m[3], m[4], m[5], m[6]), Call("Tm", "", m, <<>>, TRUE))
Call_Tr ==
    /\ Len(calls) < MaxCalls
    /\ \E mode \in {0, TEXT_RENDER_MODE_INVISIBLE} :
        Appended(Tr(Self, mode), Call("Tr", "", <<RInt(mode)>>, <<>>, TRUE))
Call_Tz ==
    /\ Len(calls) < MaxCalls
    /\ \E x \in Numbers : Appended(Tz(Self, x), Call("Tz", "", <<x>>, <<>>, TRUE))
\* Lines 208-213: text.encode runs before append, so a text that cannot be
\* encoded raises and the list stays as it was.
Call_TJ ==
    /\ Len(calls) < MaxCalls
    /\ \E txt \in Texts :
        IF CanEncode(txt)
        THEN Appended(TJ(Self, txt), Call("TJ", "", <<>>, txt, TRUE))
        ELSE /\ calls' = Append(calls, Call("TJ", "", <<>>, txt, FALSE))
             /\ returned' = "UnicodeEncodeError"
             /\ UNCHANGED <<lists, result, genVars, pageVars, otherVars>>
Call_s ==
    /\ Len(calls) < MaxCalls
    /\ Appended(s(Self), Call("s", "", <<>>, <<>>, TRUE))
Call_re ==
    /\ Len(calls) < MaxCalls
    /\ \E r \in Rects :
        Appended(re(Self, r[1], r[2], r[3], r[4]), Call("re", "", r, <<>>, TRUE))
Call_RG ==
    /\ Len(calls) < MaxCalls
    /\ Appended(RG(Self, RInt(100), RInt(100), RInt(100)),
                Call("RG", "", <<RInt(100), RInt(100), RInt(100)>>, <<>>, TRUE))

\* Lines 232-234: build returns the list object itself, not a copy.
Call_build ==
    /\ result.ref = 0
    /\ result' = [ref |-> build(SelfInstructions), at_build |-> lists[build(SelfInstructions)]]
    /\ returned' = "list"
    /\ UNCHANGED <<lists, calls, genVars, pageVars, otherVars>>

NextBuilder ==
    \/ Call_q
    \/ Call_Q
    \/ Call_cm
    \/ Call_BT
    \/ Call_ET
    \/ Call_BDC
    \/ Call_EMC
    \/ Call_Tf
    \/ Call_Tm
    \/ Call_Tr
    \/ Call_Tz
    \/ Call_TJ
    \/ Call_s
    \/ Call_re
    \/ Call_RG
    \/ Call_build

SpecBuilder == InitBuilder /\ [][NextBuilder]_vars

\* -------------------------- generate_text_content_stream called twice
\* The results the two calls are given.
AgainResults ==
    {NoResult,
     PaddleResult(<<PaddleBlock("text", <<>>)>>),
     PaddleResult(<<PaddleBlock("text", <<WHi, WAstral>>)>>),
     PaddleResult(<<PaddleBlock("text", <<WReversed>>), PaddleBlock("table", <<WThin, WHi>>)>>),
     PaddleResult(<<PaddleBlock("text", <<WSurrogate, WHi>>)>>),
     PaddleResult(<<PaddleBlock("text", <<WEmpty, WAstral, WBbox3>>)>>)}

AgainScales == {<<Rat(3, 4), Rat(1, 2)>>, <<ROne, ROne>>}

\* The first of two calls in one process.
InitAgain ==
    /\ PageIdle
    /\ BuilderIdle
    /\ OthersIdle
    /\ pc = "begin"
    /\ entry = "generate_text_content_stream"
    /\ ocr_result \in AgainResults
    /\ scale \in AgainScales
    /\ height \in Heights
    /\ boxes \in BOOLEAN
    /\ GenLocals

\* The function is called once more with the same result, scale and height,
\* and either flag.  The new frame has text unbound; cs, mcid_counter and the
\* loop variables are not bound either, and stand here with what the last call
\* left in them.  What the module logged stays logged.
CallAgain ==
    /\ pc = "returned"
    /\ entry = "generate_text_content_stream"
    /\ ~first.made
    /\ first' = [made |-> TRUE, boxes |-> boxes, ret |-> ret]
    /\ boxes' \in BOOLEAN
    /\ text' = Unbound
    /\ last' = NoLast
    /\ ret' = <<>>
    /\ pc' = "begin"
    /\ UNCHANGED <<entry, ocr_result, scale, height, cs, mcid_counter, bi, wi, log, exc>>
    /\ UNCHANGED <<pageVars, builderVars, normVars, engineVars>>

NextAgain == Begin \/ NextBlock \/ ProcessWord \/ Finish \/ CallAgain

SpecAgain == InitAgain /\ [][NextAgain]_vars

\* --------------------------------------------------- PaddleResult.__init__
\* A raw LayoutParsingResultV2.  ocr says what result.get("overall_ocr_res")
\* gives: None ("missing"), a mapping without keys ("empty"), or an OCRResult
\* ("present"), whose rec_boxes, rec_texts, rec_labels and rec_scores are
\* zipped here into words (possibly none).  layout holds the labels of
\* parsing_res_list, which has_list says is there at all.
Raw(ocr, words, has_list, layout) ==
    [ocr |-> ocr, words |-> words, has_list |-> has_list, layout |-> layout]

WOk == Word(Str(<<79, 75>>), NumList(<<30, 60, 70, 80>>))

RawResults ==
    {Raw("missing", <<>>, TRUE, <<"text">>),
     Raw("empty", <<>>, TRUE, <<"text">>),
     Raw("present", <<>>, TRUE, <<"text", "table">>),
     Raw("present", <<WHi, WAstral, WOk>>, FALSE, <<>>),
     Raw("present", <<WHi, WAstral, WOk>>, TRUE, <<>>),
     Raw("present", <<WHi, WAstral, WOk>>, TRUE, <<"text">>),
     Raw("present", <<WHi, WAstral>>, TRUE, <<"text", "table">>),
     Raw("present", <<WHi, WAstral>>, TRUE, <<"seal", "chart", "image">>)}

\* bool(overall_ocr_res) with any mapping taken for a true value.
OcrTruthy_AnyMapping(r) == r.ocr # "missing"

\* bool(overall_ocr_res) at line 33: None and a mapping without keys are
\* false; an OCRResult holds keys and is true, with or without words.
OcrTruthy(r) == r.ocr = "present"

\* result.get("parsing_res_list", []) at line 31.
ParsingResList(r) == IF r.has_list THEN r.layout ELSE <<>>

\* What get_sub_regions_ocr_res may return as ocr_idx_list for n words: any
\* indices of words, ascending, none twice.
Matches(n) ==
    {idx \in UNION {[1..k -> 1..n] : k \in 0..n} :
        \A i \in 1..Len(idx), j \in 1..Len(idx) : i < j => idx[i] < idx[j]}

\* What sort_by_xycut may return for n boxes: any order of their indices.
Orders(n) == {o \in [1..n -> 1..n] : \A i \in 1..n, j \in 1..n : o[i] = o[j] => i = j}

\* Lines 60-70: the word records of the matched indices, in that order.
MatchedWords(words, ocr_idx_list) ==
    [k \in 1..Len(ocr_idx_list) |-> words[ocr_idx_list[k]]]

\* Lines 75-79 without "chart".
Direction_NoChart(label) ==
    IF label \in {"table", "seal"} THEN "vertical" ELSE "horizontal"

\* Lines 75-79.
Direction(label) ==
    IF label \in {"table", "seal", "chart"} THEN "vertical" ELSE "horizontal"

\* Line 82 left out: the words stay in matched order.
Reordered_NotApplied(ocr_words, sorted_indices) == ocr_words

\* Line 82.
Reordered(ocr_words, sorted_indices) ==
    [i \in 1..Len(sorted_indices) |-> ocr_words[sorted_indices[i]]]

\* Lines 73-81: whether sort_by_xycut is called, and with which direction.
ResolverCall(label, ocr_words) ==
    IF ocr_words # <<>> THEN [called |-> TRUE, direction |-> Direction(label)]
    ELSE [called |-> FALSE, direction |-> ""]

\* PaddleResult.from_layout_result is called on a raw result; what it builds
\* is then handed to generate_text_content_stream.
InitNorm ==
    /\ PageIdle
    /\ BuilderIdle
    /\ GenLocals
    /\ pc = "normalize"
    /\ entry = "from_layout_result"
    /\ ocr_result = NoResult
    /\ scale \in Scales
    /\ height \in Heights
    /\ boxes = FALSE
    /\ first = NoFirst
    /\ raw \in RawResults
    /\ trace = <<>>
    /\ queue = <<>>
    /\ slot = <<>>
    /\ event = <<>>
    /\ caller = <<>>
    /\ worker = <<>>
    /\ taken = <<>>
    /\ stops = NoStops

\* Lines 27-33: self.blocks = [], and the test that guards the loop.
NormBegin ==
    /\ pc = "normalize"
    /\ ocr_result' = PaddleResult(<<>>)
    /\ pc' = IF OcrTruthy(raw) /\ ParsingResList(raw) # <<>> THEN "extract" ELSE "begin"
    /\ UNCHANGED <<entry, scale, height, boxes, cs, mcid_counter, bi, wi, text, log, last,
                   ret, exc>>
    /\ UNCHANGED <<pageVars, builderVars, otherVars>>

\* Lines 34-48 with lines 55-84: the next layout block gets its matched words
\* in the order the resolver returned, and is appended to self.blocks.
ExtractBlock ==
    /\ pc = "extract"
    /\ LET k == Len(ocr_result.blocks) + 1
           label == ParsingResList(raw)[k]
       IN  \E ocr_idx_list \in Matches(Len(raw.words)) :
           \E sorted_indices \in Orders(Len(ocr_idx_list)) :
              LET ocr_words == MatchedWords(raw.words, ocr_idx_list)
                  call == ResolverCall(label, ocr_words)
                  sorted == IF call.called THEN Reordered(ocr_words, sorted_indices)
                            ELSE ocr_words
              IN  /\ ocr_result' = PaddleResult(Append(ocr_result.blocks,
                                                       PaddleBlock(label, sorted)))
                  /\ trace' = Append(trace, [label |-> label, idx |-> ocr_idx_list,
                                             called |-> call.called,
                                             direction |-> call.direction,
                                             order |-> sorted_indices])
                  /\ pc' = IF k = Len(ParsingResList(raw)) THEN "begin" ELSE "extract"
    /\ UNCHANGED <<entry, scale, height, boxes, cs, mcid_counter, bi, wi, text, log, last,
                   ret, exc>>
    /\ UNCHANGED <<raw, pageVars, builderVars, callVars, engineVars>>

NextNorm == NormBegin \/ ExtractBlock \/ Begin \/ NextBlock \/ ProcessWord \/ Finish

SpecNorm == InitNorm /\ [][NextNorm]_vars

\* ------------------------------------------ ocr_process and its callers
\* The pages of the document, each OCRed by one call of generate_pdf, and
\* the worker processes check_options starts (options.engine_workers of them).
Jobs == 1..MaxJobs
Workers == 1..MaxWorkers

\* manager.dict(): no entry yet.  Once written, "output" is "" (failed) or the
\* list of normalised results.
EmptyDict == [has |-> FALSE, failed |-> FALSE, results |-> <<>>]

\* The image cv.imread gave the call for page j, and the result inference
\* computes from an image.
ImageOf(j) == j
Inference(img) == <<img>>

\* engine.py line 127: the tuple (img, output_dict, event) of page j.
Message(j) == [img |-> ImageOf(j), out |-> j, ev |-> j]
NoMessage == [img |-> 0, out |-> 0, ev |-> 0]

\* ocr_process before its first q.get(): reader is None.
NewWorker == [pc |-> "get", msg |-> NoMessage, reader |-> FALSE]

NewCaller == [pc |-> "start", result |-> 0]

\* check_options has started n worker processes on one empty queue; no page
\* has called generate_pdf yet.
InitEngine ==
    /\ PageIdle
    /\ BuilderIdle
    /\ GenLocals
    /\ pc = "workers"
    /\ entry = "ocr_process"
    /\ ocr_result = NoResult
    /\ scale = <<RZero, RZero>>
    /\ height = 0
    /\ boxes = FALSE
    /\ first = NoFirst
    /\ raw = NoRaw
    /\ trace = <<>>
    /\ queue = <<>>
    /\ slot = [j \in Jobs |-> EmptyDict]
    /\ event = [j \in Jobs |-> FALSE]
    /\ caller = [j \in Jobs |-> NewCaller]
    /\ \E n \in Workers : worker = [w \in 1..n |-> NewWorker]
    /\ taken = [j \in Jobs |-> [by |-> <<>>, runs |-> 0]]
    /\ stops = NoStops

\* engine.py lines 122-127: the call for page j makes its slot and its event
\* and puts the tuple on the queue.  Pages are OCRed before the document is
\* optimized, so none is submitted once optimize_pdf has put a stop message.
Submit(j) ==
    /\ caller[j].pc = "start"
    /\ stops.put = 0
    /\ slot' = [slot EXCEPT ![j] = EmptyDict]
    /\ event' = [event EXCEPT ![j] = FALSE]
    /\ queue' = Append(queue, Message(j))
    /\ caller' = [caller EXCEPT ![j].pc = "wait"]
    /\ UNCHANGED <<worker, taken, stops, genVars, pageVars, builderVars, callVars, normVars>>

\* Line 130 with the failure marker taken for a result.
OutputFirst_MarkerAsResult(d) ==
    IF ~d.has THEN [pc |-> "KeyError", result |-> 0]
    ELSE IF d.failed THEN [pc |-> "got", result |-> 0]
    ELSE IF d.results = <<>> THEN [pc |-> "IndexError", result |-> 0]
    ELSE [pc |-> "got", result |-> d.results[1]]

\* Line 130: output_dict["output"][0].  A missing key raises KeyError, ""[0]
\* and [][0] raise IndexError, and paddleocr_to_pdf is not reached.
OutputFirst(d) ==
    IF ~d.has THEN [pc |-> "KeyError", result |-> 0]
    ELSE IF d.failed \/ d.results = <<>> THEN [pc |-> "IndexError", result |-> 0]
    ELSE [pc |-> "got", result |-> d.results[1]]

\* engine.py lines 128-130: event.wait() returns once the event is set; then
\* output_dict["output"][0] is read.
Wake(j) ==
    /\ caller[j].pc = "wait"
    /\ event[j]
    /\ caller' = [caller EXCEPT ![j] = OutputFirst(slot[j])]
    /\ UNCHANGED <<queue, slot, event, worker, taken, stops, genVars, pageVars, builderVars,
                   callVars, normVars>>

\* q.get() that leaves the message on the queue.
Dequeue_Peek(qu) == qu

\* q.get(): the oldest message is removed from the queue.
Dequeue(qu) == Tail(qu)

\* The stop message, None.
Stop == [img |-> 0, out |-> 0, ev |-> 0]

\* Lines 35-36 with the return left out: the worker asks for the next message.
AfterStop_KeepsRunning(w) == [worker EXCEPT ![w].pc = "get"]

\* Lines 35-36: the worker process returns from ocr_process.
AfterStop(w) == [worker EXCEPT ![w].pc = "exited"]

\* engine.py lines 34-37: worker w blocks in q.get() until a message is
\* there; None ends the process, a tuple is unpacked.
Get(w) ==
    /\ w \in DOMAIN worker
    /\ worker[w].pc = "get"
    /\ queue # <<>>
    /\ LET message == Head(queue)
       IN  /\ queue' = Dequeue(queue)
           /\ IF message = Stop
              THEN /\ worker' = AfterStop(w)
                   /\ UNCHANGED taken
              ELSE /\ worker' = [worker EXCEPT ![w].pc = "try", ![w].msg = message]
                   /\ taken' = [taken EXCEPT ![message.out].by = Append(@, w)]
    /\ UNCHANGED <<slot, event, caller, stops, genVars, pageVars, builderVars, callVars,
                   normVars>>

\* The except branch of lines 76-78 without its assignment.
SlotAfter_NoFailureMarker(old, ok, img) ==
    IF ok THEN [has |-> TRUE, failed |-> FALSE, results |-> Inference(img)] ELSE old

\* The slot after lines 73-75 (inference returned) or line 78 (it raised).
SlotAfter(old, ok, img) ==
    IF ok THEN [has |-> TRUE, failed |-> FALSE, results |-> Inference(img)]
    ELSE [has |-> TRUE, failed |-> TRUE, results |-> <<>>]

\* engine.py lines 39-78: the reader is made on the first job; making it or
\* predict may raise an Exception, which the except branch catches.
Infer(w) ==
    /\ w \in DOMAIN worker
    /\ worker[w].pc = "try"
    /\ \E made \in BOOLEAN, predicted \in BOOLEAN :
        LET reader == worker[w].reader \/ made
            ok == reader /\ predicted
            m == worker[w].msg
        IN  /\ slot' = [slot EXCEPT ![m.out] = SlotAfter(@, ok, m.img)]
            /\ worker' = [worker EXCEPT ![w].pc = "finally", ![w].reader = reader]
            /\ taken' = [taken EXCEPT ![m.out].runs = @ + 1]
    /\ UNCHANGED <<queue, event, caller, stops, genVars, pageVars, builderVars, callVars,
                   normVars>>

\* engine.py lines 79-80, then back to the head of the loop.
SetEvent(w) ==
    /\ w \in DOMAIN worker
    /\ worker[w].pc = "finally"
    /\ event' = [event EXCEPT ![worker[w].msg.ev] = TRUE]
    /\ worker' = [worker EXCEPT ![w].pc = "get", ![w].msg = NoMessage]
    /\ UNCHANGED <<queue, slot, caller, taken, stops, genVars, pageVars, builderVars, callVars,
                   normVars>>

NextEngine ==
    \/ \E j \in Jobs : Submit(j)
    \/ \E j \in Jobs : Wake(j)
    \/ \E w \in Workers : Get(w)
    \/ \E w \in Workers : Infer(w)
    \/ \E w \in Workers : SetEvent(w)

\* A worker process that holds a job keeps running: its inference returns or
\* raises, and the finally clause follows.
WorkersRun == \A w \in Workers : WF_vars(Infer(w)) /\ WF_vars(SetEvent(w))

SpecEngine == InitEngine /\ [][NextEngine]_vars /\ WorkersRun

\* ---------------------------------------------------------- optimize_pdf
\* __init__.py lines 98-100: one q.put(None) for each started worker.
PutStop ==
    /\ entry = "ocr_process"
    /\ stops.put < Len(worker)
    /\ queue' = Append(queue, Stop)
    /\ stops' = [stops EXCEPT !.put = @ + 1]
    /\ UNCHANGED <<slot, event, caller, worker, taken, genVars, pageVars, builderVars,
                   callVars, normVars>>

\* __init__.py lines 101-102: each p.join(3.0) returns when the process has
\* ended or three seconds have passed, whichever is first; the loop over the
\* processes changes nothing else.
Join ==
    /\ entry = "ocr_process"
    /\ stops.put = Len(worker)
    /\ ~stops.joined
    /\ stops' = [stops EXCEPT !.joined = TRUE]
    /\ UNCHANGED <<queue, slot, event, caller, worker, taken, genVars, pageVars,
                   builderVars, callVars, normVars>>

\* Shutdown concerns the queue and the worker loops; a caller's return from
\* event.wait() touches neither and is covered by SpecEngine.
NextShutdown ==
    \/ \E j \in Jobs : Submit(j)
    \/ \E w \in Workers : Get(w)
    \/ \E w \in Workers : Infer(w)
    \/ \E w \in Workers : SetEvent(w)
    \/ PutStop
    \/ Join

\* A worker blocked in q.get() takes a message that stays on the queue.
WorkersGet == \A w \in Workers : WF_vars(Get(w))

SpecShutdown == InitEngine /\ [][NextShutdown]_vars /\ WorkersRun /\ WorkersGet

\* ======================================================== properties
\* ---------------------------------------------------- reading a stream
IsOp(ins, i, op) == ins[i].op = op
Count(ins, op, i) == Cardinality({k \in 1..i : ins[k].op = op})
IsTJ(instr) == instr.op = "TJ"
IsBDC(instr) == instr.op = "BDC"

\* The TJ operands of a stream decoded as UTF-16BE, in stream order.
TJTexts(ins) ==
    LET tj == SelectSeq(ins, IsTJ)
    IN  [k \in 1..Len(tj) |-> Utf16beDecode(tj[k].bytes)]

\* The MCIDs of the BDC instructions of a stream, in stream order.
BDCIds(ins) ==
    LET bdc == SelectSeq(ins, IsBDC)
    IN  [k \in 1..Len(bdc) |-> bdc[k].nums[1].n]

\* The word records of a result in block order, then stored word order.
RECURSIVE WordsOf(_)
WordsOf(blocks) ==
    IF blocks = <<>> THEN <<>> ELSE Head(blocks).ocr_words \o WordsOf(Tail(blocks))

TextOf(w) == DictGet(w, "text", Str(<<>>))
BboxOf(w) == DictGet(w, "bbox", NumList(<<>>))
TextEmpty(w) == TextOf(w).t = "str" /\ TextOf(w).cp = <<>>
HasBbox4(w) == BboxOf(w).t = "list" /\ Len(BboxOf(w).e) = 4
HasGeometry(w) == HasBbox4(w) /\ ~BboxOf(w).strs

\* The skip test of the data model: empty text, a bbox that has not exactly 4
\* elements, or a computed font size or run width that is not positive.
Skipped(w) ==
    /\ w.mapping
    /\ \/ TextEmpty(w)
       \/ ~HasBbox4(w)
       \/ /\ HasGeometry(w)
          /\ LET g == Geometry(BboxOf(w).e, scale, height)
             IN  RLeq(g.font_size, RZero) \/ RLeq(g.box_width, RZero)

PassesSkipTest(w) == w.mapping /\ ~Skipped(w)

\* A word whose processing raises nothing: its bbox entries are numbers and
\* its text is a str that UTF-16BE can encode.
RaisesNothing(w) ==
    /\ w.mapping
    /\ ~BboxOf(w).strs
    /\ TextOf(w).t = "str"
    /\ CanEncode(TextOf(w).cp)

TextsOf(ws) == [k \in 1..Len(ws) |-> TextOf(ws[k]).cp]

\* C1: a word with empty text, a bbox without exactly 4 elements, or a
\* non-positive computed font size or run width, appends no instruction and
\* leaves the marked-content counter as it was.
C1_SkippedWordAppendsNothing ==
    (last.outcome # "none" /\ Skipped(last.word))
        => (last.cs_after = last.cs /\ last.mcid_after = last.mcid)

\* C1 witness: a zero-width word was skipped after a run had been emitted.
C1_Witness ==
    /\ last.outcome = "skip"
    /\ last.word = WThin
    /\ last.mcid = 1
    /\ Skipped(last.word)

\* C2 as stated: the TJ operands of a returned stream are the texts of exactly
\* the words that pass the skip test, in block-then-word order.
C2_TextsOfWordsPassingSkipTest ==
    pc = "returned" =>
        TJTexts(ret) = TextsOf(SelectSeq(WordsOf(ocr_result.blocks), PassesSkipTest))

\* C2 amended: the TJ operands of a returned stream, decoded, are the texts of
\* exactly the words that pass the skip test and whose processing raises
\* nothing, in block-then-word order: none dropped, duplicated or reordered.
C2_TextsOfEmittableWords ==
    pc = "returned" =>
        TJTexts(ret) =
            TextsOf(SelectSeq(WordsOf(ocr_result.blocks),
                              LAMBDA w : PassesSkipTest(w) /\ RaisesNothing(w)))

\* C2 witness: two different words in two blocks were both emitted.
C2_Witness ==
    /\ pc = "returned"
    /\ Len(ocr_result.blocks) = 2
    /\ TJTexts(ret) = <<WAstral.text.cp, WHi.text.cp>>

\* C3: in a returned stream the k-th BDC (from 0) carries MCID k.
C3_McidCountsRuns ==
    pc = "returned" => \A k \in 1..Len(BDCIds(ret)) : BDCIds(ret)[k] = k - 1

\* C4: no word record makes generate_text_content_stream raise.
C4_WordNeverAbortsPage == pc # "raised"

\* Every proper prefix has more q than Q, the whole stream as many.
QBalanced(ins) ==
    /\ \A i \in 1..(Len(ins) - 1) : Count(ins, "Q", i) < Count(ins, "q", i)
    /\ Count(ins, "Q", Len(ins)) = Count(ins, "q", Len(ins))

\* BT and ET alternate, starting with BT and ending with ET.
TextObjectsAlternate(ins) ==
    /\ \A i \in 1..Len(ins) : Count(ins, "BT", i) - Count(ins, "ET", i) \in {0, 1}
    /\ Count(ins, "BT", Len(ins)) = Count(ins, "ET", Len(ins))

\* The text object opened at i holds one BDC, then one TJ, then one EMC.
OneRunInside(ins, i) ==
    \E j \in (i + 1)..Len(ins) :
        /\ IsOp(ins, j, "ET")
        /\ \A k \in (i + 1)..(j - 1) : ~IsOp(ins, k, "ET") /\ ~IsOp(ins, k, "BT")
        /\ \E b, t, e \in (i + 1)..(j - 1) :
            /\ b < t /\ t < e
            /\ IsOp(ins, b, "BDC") /\ IsOp(ins, t, "TJ") /\ IsOp(ins, e, "EMC")
            /\ \A k \in (i + 1)..(j - 1) :
                /\ IsOp(ins, k, "BDC") => k = b
                /\ IsOp(ins, k, "TJ") => k = t
                /\ IsOp(ins, k, "EMC") => k = e

\* The rectangle at i is alone in a q ... Q pair of its own, outside text.
BoxInOwnPair(ins, i) ==
    /\ Count(ins, "BT", i) = Count(ins, "ET", i)
    /\ \E a \in 2..(i - 1), b \in (i + 1)..(Len(ins) - 1) :
        /\ IsOp(ins, a, "q") /\ IsOp(ins, b, "Q")
        /\ \A k \in (a + 1)..(b - 1) :
            /\ ins[k].op \notin {"q", "Q", "BT", "ET"}
            /\ IsOp(ins, k, "re") => k = i

WellBracketed(ins) ==
    /\ Len(ins) >= 2
    /\ IsOp(ins, 1, "q")
    /\ IsOp(ins, Len(ins), "Q")
    /\ QBalanced(ins)
    /\ TextObjectsAlternate(ins)
    /\ \A i \in 1..Len(ins) : IsOp(ins, i, "BT") => OneRunInside(ins, i)
    /\ \A i \in 1..Len(ins) : IsOp(ins, i, "re") => BoxInOwnPair(ins, i)

\* C5: every returned stream is well bracketed.
C5_StreamWellBracketed == pc = "returned" => WellBracketed(ret)

\* Every Tr has operand 3, and every TJ follows a Tr 3 of its own text object.
InvisibleText(ins) ==
    /\ \A i \in 1..Len(ins) : IsOp(ins, i, "Tr") => ins[i].nums = <<RInt(3)>>
    /\ \A i \in 1..Len(ins) :
        IsOp(ins, i, "TJ") =>
            \E b \in 1..(i - 1), r \in 1..(i - 1) :
                /\ b < r
                /\ IsOp(ins, b, "BT")
                /\ IsOp(ins, r, "Tr") /\ ins[r].nums = <<RInt(3)>>
                /\ \A k \in (b + 1)..i : ~IsOp(ins, k, "BT") /\ ~IsOp(ins, k, "ET")

\* C8: the text of every returned stream is invisible (render mode 3).
C8_TextAlwaysInvisible == pc = "returned" => InvisibleText(ret)

\* C8 witness: a returned stream that shows two runs, with debug boxes.
C8_Witness ==
    /\ pc = "returned"
    /\ boxes
    /\ Len(TJTexts(ret)) = 2
    /\ Count(ret, "Tr", Len(ret)) = 2

\* ------------------------------------------------------------ the page
InstrQSave == Instr("q", "", <<>>, <<>>)
InstrQRestore == Instr("Q", "", <<>>, <<>>)
BlankResult == ocr_result.none \/ ocr_result.blocks = <<>>
InputsFine == ~InputRejected(image, image_scale)

\* C6: for an absent result or one without blocks, generate_text_content_stream
\* returns exactly [q, Q], and paddleocr_to_pdf, given a valid image and a
\* writable destination, saves a document of one page holding that stream and
\* does not raise.
C6_BlankPageFallback ==
    (entry = "paddleocr_to_pdf" /\ BlankResult) =>
        /\ pc \in {"returned", "saved"} => ret = <<InstrQSave, InstrQRestore>>
        /\ pc = "saved" =>
            /\ pdf.saved
            /\ pdf.npages = 1
            /\ pdf.contents = <<InstrQSave, InstrQRestore>>
        /\ (InputsFine /\ writable) => (pc \notin {"raised", "failed"} /\ exc = "")

\* C6 witness: a result without blocks was saved as a page.
C6_Witness ==
    /\ entry = "paddleocr_to_pdf"
    /\ ~ocr_result.none
    /\ ocr_result.blocks = <<>>
    /\ pc = "saved"
    /\ pdf.saved

\* C7: a document made through PaddlePaddleEngine.generate_pdf holds no cm, re,
\* RG or s instruction.
C7_EngineDrawsNothing ==
    (entry = "generate_pdf" /\ pc = "saved") =>
        \A i \in 1..Len(pdf.contents) : pdf.contents[i].op \notin {"cm", "re", "RG", "s"}

\* --------------------------------------------------------- the builder
\* The instruction at position i is the one the call c made.
InstrOfCall(instr, c) ==
    /\ instr.op = c.op
    /\ instr.name = c.name
    /\ instr.nums = c.nums
    /\ Utf16beDecode(instr.bytes) = c.text

ReturnedCall(c) == c.ok

\* C9 as stated: every call appends exactly one instruction and returns the
\* builder, so after n calls the list holds n instructions in call order.
C9_EveryCallAppendsOne ==
    entry = "ContentStreamBuilder" =>
        /\ returned \in {"none", "self", "list"}
        /\ Len(Self) = Len(calls)
        /\ \A i \in 1..Len(Self) : InstrOfCall(Self[i], calls[i])

\* C9 amended: every call that returns appended exactly one instruction at the
\* end and returned the builder, a call that raises (TJ on a text UTF-16BE
\* cannot encode) appended nothing, so the list, and what build() returns, are
\* the instructions of the calls that returned, in call order.
C9_ReturningCallAppendsOne ==
    entry = "ContentStreamBuilder" =>
        LET done == SelectSeq(calls, ReturnedCall)
        IN  /\ Len(Self) = Len(done)
            /\ \A i \in 1..Len(Self) : InstrOfCall(Self[i], done[i])
            /\ (returned = "self") => (calls # <<>> /\ calls[Len(calls)].ok)
            /\ (calls # <<>> /\ calls[Len(calls)].ok) => returned \in {"self", "list"}
            /\ (returned = "list") => lists[result.ref] = Self

\* C9 witness: calls that returned around a TJ that raised, then build().
C9_Witness ==
    /\ entry = "ContentStreamBuilder"
    /\ Len(calls) = 2
    /\ calls[1].op = "TJ" /\ ~calls[1].ok
    /\ calls[2].op = "EMC"
    /\ returned = "list"
    /\ Len(lists[result.ref]) = 1

\* C10: the list build() returned stays as it was when build() returned.
C10_BuiltStreamImmutable ==
    result.ref # 0 => lists[result.ref] = result.at_build

\* ------------------------------------------------------- diagnostics
Logged(level, b, w) == \E i \in 1..Len(log) : log[i] = [level |-> level, bi |-> b, wi |-> w]

\* C11: every unit generate_text_content_stream skipped was logged: a block
\* without words that the loop has passed left a diagnostic, and a word
\* iteration that ended in a continue (lines 273, 281, 297, 330) left one.
C11_EverySkipLogged ==
    entry = "generate_text_content_stream" =>
        /\ \A b \in 1..Len(ocr_result.blocks) :
              (b < bi /\ ocr_result.blocks[b].ocr_words = <<>>) => Logged("debug", b, 0)
        /\ last.outcome \in {"skip", "absorbed"} =>
              (last.warned = 1 /\ Logged("warning", last.bi, last.wi))

\* ------------------------------------------------------ input errors
\* The image or the scale is one paddleocr_to_pdf does not accept.
BadInput ==
    \/ ~image.exists
    \/ ~image.openable
    \/ image.width <= 0
    \/ image.height <= 0
    \/ RLeq(image_scale, RZero)

\* C12: a call of paddleocr_to_pdf with a missing or unreadable image, a
\* non-positive width or height, or image_scale <= 0 ends in ValueError and
\* never has a Pdf object, a font resource, a content stream or a saved file.
C12_InputErrorBeforeAnyResource ==
    (entry = "paddleocr_to_pdf" /\ BadInput) =>
        /\ pc \in {"validate", "failed"}
        /\ pc = "failed" => exc = "ValueError"
        /\ pdf = NoPdf
        /\ cs = <<>>
        /\ ret = <<>>

\* C12 witness: an image that opens but is 0 pixels wide was rejected, with a
\* destination that could have been written and a result with words.
C12_Witness ==
    /\ entry = "paddleocr_to_pdf"
    /\ pc = "failed"
    /\ exc = "ValueError"
    /\ image.exists /\ image.openable /\ image.width = 0
    /\ ~RLeq(image_scale, RZero)
    /\ writable
    /\ ~ocr_result.none /\ ocr_result.blocks # <<>>
    /\ pdf = NoPdf

\* ------------------------------------------------- workers and callers
Dequeued(j) == taken[j].by # <<>>
Holds(w, j) == w \in DOMAIN worker /\ worker[w].msg.ev = j

\* C13: a set event has its slot's "output" written, no caller comes back from
\* event.wait() to a slot without "output", and a job a worker has dequeued
\* has its event set in the end, whether inference returned or raised.
C13_OutputBeforeEventAlwaysSet ==
    /\ [](\A j \in Jobs : event[j] => slot[j].has)
    /\ [](\A j \in Jobs : caller[j].pc # "KeyError")
    /\ \A j \in Jobs : Dequeued(j) ~> event[j]

\* C13 witness: one job's inference raised and its caller read the failure
\* marker, another job's inference returned and its caller got the result.
C13_Witness ==
    /\ event[1] /\ slot[1].has /\ slot[1].failed /\ caller[1].pc = "IndexError"
    /\ event[2] /\ slot[2].has /\ ~slot[2].failed /\ caller[2].pc = "got"

\* C14: a job is dequeued by one worker at most and inferred once at most,
\* and exactly once when its event is set; a job in flight is held by exactly
\* one worker; a slot holds the failure marker or the result of its own
\* page's image, and so does what the caller reads.
C14_EachJobOnceOwnSlot ==
    entry = "ocr_process" =>
        \A j \in Jobs :
            /\ Len(taken[j].by) <= 1
            /\ taken[j].runs <= Len(taken[j].by)
            /\ (event[j] \/ slot[j].has) => (Len(taken[j].by) = 1 /\ taken[j].runs = 1)
            /\ (Dequeued(j) /\ ~event[j]) =>
                  Cardinality({w \in Workers : Holds(w, j)}) = 1
            /\ ~Dequeued(j) => {w \in Workers : Holds(w, j)} = {}
            /\ slot[j].has => (slot[j].failed \/ slot[j].results = Inference(ImageOf(j)))
            /\ caller[j].pc = "got" => caller[j].result = ImageOf(j)
            /\ caller[j].pc \in {"got", "IndexError"} => event[j]

\* C14 witness: two workers held the two jobs at the same time, and both
\* callers got the result of their own image.
C14_Witness ==
    /\ Len(taken[1].by) = 1 /\ Len(taken[2].by) = 1
    /\ taken[1].by # taken[2].by
    /\ caller[1].pc = "got" /\ caller[1].result = ImageOf(1)
    /\ caller[2].pc = "got" /\ caller[2].result = ImageOf(2)

\* --------------------------------------------------------- two calls
\* The index of the last instruction with this operator at or before i.
LastOp(ins, i, op) ==
    CHOOSE k \in 1..i : ins[k].op = op /\ \A m \in (k + 1)..i : ins[m].op # op

\* The rectangle group that belongs to the run ending with the ET at i: cm
\* with the run's Tm operands, re with (0, 0, run width, font size), where the
\* run width is recovered from Tz = 100 * width / len(text) / size * 2.
GroupAfter(ins, i) ==
    LET tm == ins[LastOp(ins, i, "Tm")]
        size == ins[LastOp(ins, i, "Tf")].nums[1]
        stretch == ins[LastOp(ins, i, "Tz")].nums[1]
        n == Len(Utf16beDecode(ins[LastOp(ins, i, "TJ")].bytes))
        width == RDiv(RMul(RMul(stretch, RInt(n)), size),
                      RInt(HORIZONTAL_SCALE_FACTOR * CHAR_ASPECT))
    IN  <<Instr("q", "", <<>>, <<>>),
          Instr("cm", "", tm.nums, <<>>),
          Instr("re", "", <<RZero, RZero, width, size>>, <<>>),
          Instr("RG", "", <<>>, <<>>),
          Instr("s", "", <<>>, <<>>),
          Instr("Q", "", <<>>, <<>>)>>

\* The stream with one group inserted right after each ET, from index i on.
RECURSIVE WithGroups(_, _)
WithGroups(ins, i) ==
    IF i > Len(ins) THEN <<>>
    ELSE <<ins[i]>> \o (IF ins[i].op = "ET" THEN GroupAfter(ins, i) ELSE <<>>)
         \o WithGroups(ins, i + 1)

\* Equal instruction for instruction, whatever colour RG sets.
SameButColour(a, b) ==
    /\ Len(a) = Len(b)
    /\ \A i \in 1..Len(a) :
          IF a[i].op = "RG" THEN b[i].op = "RG" /\ Len(b[i].nums) = 3
          ELSE a[i] = b[i]

\* C15: of two calls on the same result, scale and height that differ in the
\* boxes flag, the stream made with boxes is the stream made without, with one
\* group q, cm, re, RG, s, Q inserted right after each ET; and so the text
\* runs and MCIDs are the same in both.
C15_BoxesOnlyAddRectangles ==
    (first.made /\ pc = "returned" /\ first.boxes # boxes) =>
        LET with == IF boxes THEN ret ELSE first.ret
            plain == IF boxes THEN first.ret ELSE ret
        IN  /\ SameButColour(WithGroups(plain, 1), with)
            /\ TJTexts(with) = TJTexts(plain)
            /\ BDCIds(with) = BDCIds(plain)

\* C15 witness: the second call drew boxes, the first did not, for a result
\* with a reversed word, a skipped word and an emitted word.
C15_Witness ==
    /\ first.made /\ pc = "returned" /\ boxes /\ ~first.boxes
    /\ Len(TJTexts(ret)) = 2
    /\ Len(ret) = Len(first.ret) + 12
    /\ Len(ocr_result.blocks) = 2

\* C16: a second call with the same result, scale, height and flag returns
\* the same instructions as the first, whatever the first left behind.
C16_SameInputsSameStream ==
    (first.made /\ pc = "returned" /\ first.boxes = boxes) => ret = first.ret

\* C16 witness: the second of two equal calls returned a stream with a run,
\* after a first call that left a diagnostic in the log and text bound.
C16_Witness ==
    /\ first.made /\ pc = "returned" /\ first.boxes = boxes
    /\ ret = first.ret
    /\ Len(TJTexts(ret)) = 1
    /\ Len(log) = 2
    /\ text # Unbound

\* -------------------------------------------------------- angle snap
\* The last word iteration appended a run (whole, or cut short by TJ).
RunAppended ==
    /\ entry = "generate_text_content_stream"
    /\ Len(last.cs_after) > Len(last.cs)

\* The Tm operands of the run the last word iteration appended.
LastTm == last.cs_after[LastOp(last.cs_after, Len(last.cs_after), "Tm")].nums

\* (1, 0, 0, 1) and the bottom-left corner (x1, y2) of the word in points.
Unrotated(b) ==
    <<ROne, RZero, RZero, ROne,
      RMul(RInt(b[1]), scale[1]), RMul(RInt(height - b[4]), scale[2])>>

\* The angle of line 284, before the snap, from the word's own numbers.
ComputedAngle(b) ==
    RNeg(atan2(RSub(RMul(RInt(height - b[4]), scale[2]), RMul(RInt(height - b[4]), scale[2])),
               RSub(RMul(RInt(b[3]), scale[1]), RMul(RInt(b[1]), scale[1]))))

\* C17: a run whose computed angle is below 0.01 rad in absolute value has
\* the Tm operands (1, 0, 0, 1, x, y) with (x, y) the bottom-left corner in
\* points; every emitted word with x2 > x1 has.
C17_AngleSnap ==
    RunAppended =>
        LET b == BboxOf(last.word).e
        IN  /\ RLess(RAbs(ComputedAngle(b)), ANGLE_THRESHOLD_RAD) => LastTm = Unrotated(b)
            /\ b[3] > b[1] => LastTm = Unrotated(b)

\* C17 witness: a word with x2 > x1 was emitted after a word with x2 < x1,
\* whose matrix is rotated by half a turn.
C17_Witness ==
    /\ RunAppended
    /\ last.outcome = "emit"
    /\ last.word = WAstral
    /\ LastTm = <<ROne, RZero, RZero, ROne, RInt(15), RInt(25)>>
    /\ Len(last.cs) > 1
    /\ last.cs[LastOp(last.cs, Len(last.cs), "Tm")].nums[1] = RInt(-1)

\* ----------------------------------------------------- the normalizer
\* from_layout_result has returned.
Normalized == entry = "from_layout_result" /\ pc \notin {"normalize", "extract"}

\* One block per layout block, with the labels in the engine's order.
OneBlockPerLayoutBlock ==
    /\ Len(ocr_result.blocks) = Len(raw.layout)
    /\ \A k \in 1..Len(raw.layout) : ocr_result.blocks[k].label = raw.layout[k]

\* C18 as stated: zero blocks when the overall word list is missing or empty
\* or the block list is missing or empty, else one block per layout block.
C18_ZeroBlocksWithoutWordsOrBlocks ==
    Normalized =>
        IF raw.ocr # "present" \/ raw.words = <<>> \/ ~raw.has_list \/ raw.layout = <<>>
        THEN ocr_result.blocks = <<>>
        ELSE OneBlockPerLayoutBlock

\* C18 amended: zero blocks when the overall OCR result is missing or a
\* mapping without keys, or the block list is missing or empty; else one
\* block per layout block in the engine's order, also when the overall OCR
\* result is there but holds no word (each block then has no words).
C18_ZeroBlocksWithoutOcrOrBlocks ==
    Normalized =>
        /\ ~ocr_result.none
        /\ pc # "raised"
        /\ IF raw.ocr # "present" \/ ~raw.has_list \/ raw.layout = <<>>
           THEN ocr_result.blocks = <<>>
           ELSE /\ OneBlockPerLayoutBlock
                /\ raw.words = <<>> =>
                      \A k \in 1..Len(raw.layout) : ocr_result.blocks[k].ocr_words = <<>>

\* C18 witness: an OCR result without words and a layout of two blocks gave
\* two blocks without words.
C18_Witness ==
    /\ Normalized
    /\ raw.ocr = "present" /\ raw.words = <<>>
    /\ Len(ocr_result.blocks) = 2
    /\ ocr_result.blocks[2].label = "table"

\* The words matched to the k-th block, in matched order.
Subset(k) == [i \in 1..Len(trace[k].idx) |-> raw.words[trace[k].idx[i]]]

RECURSIVE Flatten(_)
Flatten(seqs) == IF seqs = <<>> THEN <<>> ELSE Head(seqs) \o Flatten(Tail(seqs))

\* C19: word i of every block is subset[order[i]], for the subset matched to
\* the block and the order the resolver returned; this stays so while the page
\* is assembled, and the returned stream shows the texts in that order.
C19_WordsInResolverOrder ==
    entry = "from_layout_result" =>
        /\ Len(trace) = Len(ocr_result.blocks)
        /\ \A k \in 1..Len(trace) :
              LET words == ocr_result.blocks[k].ocr_words
              IN  /\ Len(words) = Len(trace[k].idx)
                  /\ \A i \in 1..Len(words) : words[i] = Subset(k)[trace[k].order[i]]
        /\ pc = "returned" =>
              TJTexts(ret) =
                  Flatten([k \in 1..Len(trace) |->
                              [i \in 1..Len(trace[k].idx) |->
                                  TextOf(Subset(k)[trace[k].order[i]]).cp]])

\* C19 witness: a block whose three matched words the resolver put in the
\* order 3, 1, 2 came out of the page assembler in that order.
C19_Witness ==
    /\ entry = "from_layout_result"
    /\ pc = "returned"
    /\ Len(trace) = 1
    /\ trace[1].idx = <<1, 2, 3>> /\ trace[1].order = <<3, 1, 2>>
    /\ TJTexts(ret) = <<TextOf(WOk).cp, TextOf(WHi).cp, TextOf(WAstral).cp>>

\* C20: the resolver is called exactly for the blocks with a matched word,
\* with direction "vertical" for table, seal and chart and "horizontal" for
\* every other label.
C20_DirectionByLabel ==
    entry = "from_layout_result" =>
        \A k \in 1..Len(trace) :
            /\ trace[k].called <=> trace[k].idx # <<>>
            /\ trace[k].called =>
                  /\ trace[k].direction \in {"vertical", "horizontal"}
                  /\ trace[k].direction = "vertical"
                        <=> trace[k].label \in {"table", "seal", "chart"}

\* C20 witness: seal and chart were resolved vertically, the image block
\* horizontally.
C20_Witness ==
    /\ entry = "from_layout_result"
    /\ Len(trace) = 3
    /\ trace[1].label = "seal" /\ trace[1].called /\ trace[1].direction = "vertical"
    /\ trace[2].label = "chart" /\ trace[2].called /\ trace[2].direction = "vertical"
    /\ trace[3].label = "image" /\ trace[3].called /\ trace[3].direction = "horizontal"

\* ------------------------------------------------ the worked example
\* An image of 200 x 100 pixels at 96 dpi, image_scale 1.0, one block with
\* the one word "Hi" at [10, 10, 90, 30], no boxes.
Scenario ==
    /\ entry = "paddleocr_to_pdf"
    /\ image.exists /\ image.openable
    /\ image.width = 200 /\ image.height = 100
    /\ image.has_dpi /\ image.dpi = <<96, 96>>
    /\ image_scale = RInt(1)
    /\ ocr_result = PaddleResult(<<PaddleBlock("text", <<WHi>>)>>)
    /\ ~boxes

ScenarioStream ==
    <<Instr("q", "", <<>>, <<>>),
      Instr("BT", "", <<>>, <<>>),
      Instr("BDC", "/Span", <<RInt(0)>>, <<>>),
      Instr("Tr", "", <<RInt(3)>>, <<>>),
      Instr("Tm", "", <<RInt(1), RInt(0), RInt(0), RInt(1), Rat(15, 2), Rat(105, 2)>>, <<>>),
      Instr("Tf", "/f-0-0", <<RInt(15)>>, <<>>),
      Instr("Tz", "", <<RInt(400)>>, <<>>),
      Instr("TJ", "", <<>>, <<0, 72, 0, 105>>),
      Instr("EMC", "", <<>>, <<>>),
      Instr("ET", "", <<>>, <<>>),
      Instr("Q", "", <<>>, <<>>)>>

\* C21: in the worked example the page is 150 x 75 points and the stream is
\* q, the one run (MCID 0, Tr 3, Tm (1, 0, 0, 1, 7.5, 52.5), Tf 15, Tz 400,
\* TJ "Hi" in UTF-16BE), Q.
C21_WorkedExample ==
    Scenario =>
        /\ pc # "raised"
        /\ pc = "failed" => (~writable /\ pdf.contents = ScenarioStream)
        /\ pdf.open => pdf.page_size = <<RInt(150), RInt(75)>>
        /\ pc \in {"returned", "saved"} => ret = ScenarioStream
        /\ pc = "saved" =>
              (pdf.contents = ScenarioStream /\ pdf.npages = 1
               /\ pdf.page_size = <<RInt(150), RInt(75)>>)

\* C21 witness: the worked example's document was saved.
C21_Witness ==
    /\ Scenario
    /\ pc = "saved"
    /\ pdf.saved
    /\ Len(pdf.contents) = 11

\* ------------------------------------------------- whole runs only
\* The operators the last word iteration appended, in order.
AppendedOps ==
    [i \in 1..(Len(last.cs_after) - Len(last.cs)) |-> last.cs_after[Len(last.cs) + i].op]

RunOps == <<"BT", "BDC", "Tr", "Tm", "Tf", "Tz", "TJ", "EMC", "ET">>
BoxOps == <<"q", "cm", "re", "RG", "s", "Q">>

\* C22: a word iteration appends nothing, or one whole run BT, BDC, Tr, Tm,
\* Tf, Tz, TJ, EMC, ET (and the six box instructions when boxes is set), also
\* when an operation of the run raised and the exception was absorbed.
C22_RunAllOrNothing ==
    (entry = "generate_text_content_stream" /\ last.outcome # "none") =>
        \/ AppendedOps = <<>>
        \/ AppendedOps = (IF boxes THEN RunOps \o BoxOps ELSE RunOps)

\* ------------------------------------------------- one page's failure
Failed(j) == slot[j].has /\ slot[j].failed

\* A step changes the slot or the event of job k only if it is made by k's
\* own caller or by a worker that holds k's message.
OwnSlotAndEventOnly ==
    \A k \in Jobs :
        (slot'[k] # slot[k] \/ event'[k] # event[k]) =>
            \/ caller[k].pc = "start"
            \/ \E w \in DOMAIN worker :
                  worker[w].msg.out = k /\ worker[w].msg.ev = k

\* A worker that reaches its finally clause goes back to q.get().
StaysInLoop ==
    \A w \in DOMAIN worker :
        (worker[w].pc = "finally" /\ worker'[w] # worker[w]) => worker'[w].pc = "get"

\* C23: a job whose inference raised has the failure marker in its slot and
\* its event set in the end; its caller is waiting or has got IndexError and
\* never a result; the worker goes on with its loop; and a step that writes a
\* slot or sets an event is made for that job only.
C23_FailureStaysWithItsPage ==
    /\ [](\A j \in Jobs : Failed(j) => caller[j].pc \in {"wait", "IndexError"})
    /\ [](\A j \in Jobs : caller[j].pc = "IndexError" => (Failed(j) /\ event[j]))
    /\ \A j \in Jobs : Failed(j) ~> event[j]
    /\ [][OwnSlotAndEventOnly /\ StaysInLoop]_vars

\* C23 witness: the worker whose inference raised for page 1, whose caller
\* got the error, has since inferred page 2 and is about to set its event.
C23_Witness ==
    \E w \in DOMAIN worker :
        /\ taken[1].by = <<w>>
        /\ Failed(1) /\ event[1] /\ caller[1].pc = "IndexError"
        /\ worker[w].pc = "finally" /\ worker[w].msg.ev = 2
        /\ slot[2].has /\ ~slot[2].failed

\* ------------------------------------------------------------ shutdown
Exited(w) == worker[w].pc = "exited"
AllExited == \A w \in DOMAIN worker : Exited(w)
AllStopsPut == stops.put = Len(worker)
StopsQueued == Cardinality({i \in 1..Len(queue) : queue[i] = Stop})

\* C24: every worker that exited took exactly one stop message (those taken
\* and those still queued are the ones put); a job taken by a worker that has
\* exited was completed first; once one stop per worker is put, all workers
\* exit in the end, and by then every job that was submitted has been
\* inferred once and has its event set.
C24_ShutdownEndsEveryWorker ==
    /\ [](Cardinality({w \in DOMAIN worker : Exited(w)}) + StopsQueued = stops.put)
    /\ [](\A j \in Jobs : \A w \in DOMAIN worker :
             (taken[j].by = <<w>> /\ Exited(w)) => event[j])
    /\ [](AllExited => \A j \in Jobs :
                           caller[j].pc # "start" => (taken[j].runs = 1 /\ event[j]))
    /\ AllStopsPut ~> AllExited

\* C24 witness: two workers have exited, each after completing one of two
\* pages submitted before the stop messages, and both joins are done.
C24_Witness ==
    /\ Len(worker) = 2
    /\ AllExited
    /\ stops = [put |-> 2, joined |-> TRUE]
    /\ caller[1].pc # "start" /\ caller[2].pc # "start"
    /\ taken[1].by # taken[2].by
    /\ event[1] /\ event[2]
    /\ queue = <<>>

====
